---- MODULE Spec2Model ----
(***************************************************************************)
(* A model of watch.py: the Nexus 6 stock watcher.                         *)
(*                                                                         *)
(* One process.  The main thread builds the models and the subscribers,    *)
(* loads the statistics file, starts one daemon worker thread per model,   *)
(* queues the models and then loops: sleep one second, every fifth second  *)
(* dump the statistics.  Each worker takes one model from the queue and    *)
(* polls it forever; when the model is in stock it appends a timestamp to  *)
(* the model's statistics and notifies the subscribers by mail.            *)
(*                                                                         *)
(* Time is a clock of whole seconds that advances between any two steps.   *)
(* time.sleep is a point where other threads run; the model does not tie   *)
(* the clock to it (the clock may advance by any step of TickSteps).       *)
(***************************************************************************)
EXTENDS Integers, Sequences, FiniteSets, TLC

(***************************************************************************)
(* Bounds of the model.                                                    *)
(***************************************************************************)
\* clock ticks in one behaviour
MaxTicks == 2
\* "in stock" results (calls of notify) in one behaviour
MaxEvents == 2
\* restarts of the process after it ended
MaxRestarts == 1

(***************************************************************************)
(* Program constants.                                                      *)
(***************************************************************************)
\* watch.py:14-15
COLORS == <<"white", "blue">>
SIZES == <<"32", "64">>
\* watch.py:144
max_attempts == 5
\* watch.py:154, the factor of time.sleep(5 * attempt)
BackoffFactor == 5
\* watch.py:96
MinResponseSize == 2048
\* datetime.timedelta.seconds is the remainder of the difference in one day
\* (watch.py:123,125 read delta.seconds)
DaySeconds == 86400
\* watch.py:55, a pair that was never notified holds None
None == -1

(***************************************************************************)
(* Pure helpers.                                                           *)
(***************************************************************************)
Range(f) == {f[x] : x \in DOMAIN f}

IsPrefix(s, t) == Len(s) <= Len(t) /\ SubSeq(t, 1, Len(s)) = s

\* Model(color, size): the name is '{0}{1}'.format(color, size)
Model(color, size) == [name |-> color \o size, color |-> color, size |-> size]

\* Monitor._create_models: for color in COLORS: for size in SIZES: append
models ==
    [k \in 1..(Len(COLORS) * Len(SIZES)) |->
        Model(COLORS[((k - 1) \div Len(SIZES)) + 1], SIZES[((k - 1) % Len(SIZES)) + 1])]

ModelNames == {models[k].name : k \in DOMAIN models}

\* the absent key of a subscriber's entry in subscribers.yaml
NoKey == ""

\* Monitor._create_subs, for one entry of subscribers.yaml: the subscriber's
\* interval (0 unless the entry gives one) and models (all of them, filtered
\* by the entry's color and by its size when it gives them)
CreateSub(sub_data) ==
    LET byColor == IF sub_data.color = NoKey THEN models
                   ELSE SelectSeq(models, LAMBDA m : m.color = sub_data.color)
        bySize  == IF sub_data.size = NoKey THEN byColor
                   ELSE SelectSeq(byColor, LAMBDA m : m.size = sub_data.size)
    IN  [email    |-> sub_data.email,
         interval |-> IF sub_data.interval = None THEN 0 ELSE sub_data.interval,
         models   |-> {bySize[k].name : k \in DOMAIN bySize}]

\* Monitor._create_subs: one Subscriber per entry, in the order of the entries
CreateSubs(conf) == [k \in DOMAIN conf |-> CreateSub(conf[k])]

\* Subscriber.__init__: notifications[model] = None for each of its models
NewNotifications(subs) == [k \in DOMAIN subs |-> [m \in subs[k].models |-> None]]

\* ModelMonitor.__init__: the subscribers (their indexes, in order) that have
\* the model among theirs
MonitorSubscribers(subs, name) ==
    SelectSeq([k \in DOMAIN subs |-> k], LAMBDA k : name \in subs[k].models)

(***************************************************************************)
(* Time.  A datetime is a number of seconds; strftime('%Y-%m-%d %H:%M:%S')  *)
(* gives the date and the time of day; a timedelta has days and seconds.   *)
(***************************************************************************)
Strftime(t) == <<t \div DaySeconds, t % DaySeconds>>

\* the order of two formatted timestamps (that of the strings)
StampLeq(a, b) == a[1] < b[1] \/ (a[1] = b[1] /\ a[2] <= b[2])

\* datetime - datetime
TimeDelta(a, b) == [days |-> (a - b) \div DaySeconds, seconds |-> (a - b) % DaySeconds]

\* the decision without its test of interval > 0
ShouldFireEveryTime(last_time, now_, interval) ==
    IF last_time = None
    THEN TRUE
    ELSE LET delta == TimeDelta(now_, last_time)
         IN  delta.seconds >= interval

\* ModelMonitor.notify, lines 113-129: the decision for one subscriber
ShouldFire(last_time, now_, interval) ==
    IF last_time = None
    THEN TRUE
    ELSE LET delta == TimeDelta(now_, last_time)
         IN  interval > 0 /\ delta.seconds >= interval

(***************************************************************************)
(* JSON.  The text of the statistics file is a sequence of tokens:         *)
(*   { "name" [ "stamp" "stamp" ] "name" [ ] }                             *)
(* json.dumps writes it, json.loads parses it and raises ValueError on a   *)
(* text that is no JSON document (the empty text of a truncated file).     *)
(***************************************************************************)
Tok(kind, key, stamp) == [t |-> kind, k |-> key, d |-> stamp[1], s |-> stamp[2]]

Punct(kind) == Tok(kind, "", <<0, 0>>)

\* a list written without its last string
DumpListShort(list) ==
    <<Punct("[")>> \o [k \in 1..(Len(list) - 1) |-> Tok("str", "", list[k])] \o <<Punct("]")>>

\* a list of timestamp strings
DumpList(list) == <<Punct("[")>> \o [k \in DOMAIN list |-> Tok("str", "", list[k])]
                    \o <<Punct("]")>>

RECURSIVE DumpItems(_, _)
DumpItems(obj, keys) ==
    IF keys = <<>> THEN <<>>
    ELSE <<Tok("key", Head(keys), <<0, 0>>)>> \o DumpList(obj[Head(keys)])
            \o DumpItems(obj, Tail(keys))

\* the keys of a dict, in the one order the dict gives them
KeysOf(obj) ==
    LET names == [k \in DOMAIN models |-> models[k].name]
    IN  SelectSeq(names, LAMBDA n : n \in DOMAIN obj)

\* json.dumps of a dict of lists of strings
JsonDumps(obj) == <<Punct("{")>> \o DumpItems(obj, KeysOf(obj)) \o <<Punct("}")>>

ParseError == [ok |-> FALSE, val |-> <<>>, rest |-> <<>>]

\* the strings of a list up to its "]": the list and the text after it
RECURSIVE LoadList(_, _)
LoadList(text, acc) ==
    IF text = <<>> THEN ParseError
    ELSE IF Head(text).t = "]" THEN [ok |-> TRUE, val |-> acc, rest |-> Tail(text)]
    ELSE IF Head(text).t = "str"
         THEN LoadList(Tail(text), Append(acc, <<Head(text).d, Head(text).s>>))
    ELSE ParseError

\* the items of an object up to its "}"
RECURSIVE LoadItems(_, _)
LoadItems(text, acc) ==
    IF text = <<>> THEN ParseError
    ELSE IF Head(text).t = "}"
         THEN IF Tail(text) = <<>> THEN [ok |-> TRUE, val |-> acc, rest |-> <<>>]
              ELSE ParseError
    ELSE IF Head(text).t = "key" /\ Len(text) >= 2 /\ text[2].t = "["
         THEN LET list == LoadList(Tail(Tail(text)), <<>>)
              IN  IF list.ok
                  THEN LoadItems(list.rest,
                                 [n \in DOMAIN acc \cup {Head(text).k} |->
                                     IF n = Head(text).k THEN list.val ELSE acc[n]])
                  ELSE ParseError
    ELSE ParseError

\* json.loads: [ok |-> TRUE, val |-> the dict] or ValueError
JsonLoads(text) ==
    IF text # <<>> /\ Head(text).t = "{"
    THEN LET r == LoadItems(Tail(text), <<>>)
         IN  [ok |-> r.ok, val |-> r.val]
    ELSE [ok |-> FALSE, val |-> <<>>]

(***************************************************************************)
(* The state.                                                              *)
(***************************************************************************)
VARIABLES
    \* conf.yaml and subscribers.yaml
    test_mode,       \* CONF['test_mode'] is set and true
    has_stats_file,  \* 'stats_file' in CONF
    sub_conf,        \* the entries of subscribers.yaml, in the order of items()
    \* the disk
    file,            \* the statistics file: [exists, text]
    \* the clock
    now, ticks,
    \* the process and its main thread
    proc,            \* "running", "killed", "interrupted", "crashed" (the main thread raised)
                     \* or "failed" (the start raised)
    run,             \* how many times the process was started again
    mainpc,          \* "load", "put", "loop", "dump", "encode", "write"
    nput,            \* models put on the queue
    inHandler,       \* the main thread is in the except clause of _monitor
    queue,           \* Monitor.queue
    statsSet,        \* Monitor.model_stats is set
    model_stats,     \* Monitor.model_stats: model name -> a list (its place in heap)
    heap,            \* the lists of timestamps
    notifications,   \* Subscriber.notifications of each subscriber
    \* the worker threads, numbered in the order they leave queue.get()
    started,         \* workers that left queue.get()
    pc,              \* "none", "get", "check", "append", "subs", "send", "smtp",
                     \* "sent", "dead"
    wmodel,          \* the model's name (ModelMonitor.model)
    wstats,          \* ModelMonitor.stats, a place in heap
    wts,             \* the formatted timestamp about to be appended
    wi,              \* the position in ModelMonitor.subscribers
    attempt,         \* send_notification's attempt
    result,          \* how send_notification ended: "success" or "exhausted"
    calls,           \* calls of the mail server made by this send_notification
    slept,           \* the time.sleep() delays of this send_notification
    sink,            \* the mail server in this send_notification: the call it accepts
    \* history
    notified,        \* model name -> calls of notify in this run
    fires,           \* subscriber, model -> decisions to notify in this run
    firstFires,      \* subscriber, model -> those taken on "last_time is None"
    dumped,          \* the statistics the last completed dump wrote
    hasDump,         \* the file holds that dump, whole
    chunks,          \* json.dumps at work: the keys it has encoded, with their lists
    instants,        \* the statistics at every instant since json.dumps began
    events,          \* calls of notify since the first start
    cleanKill        \* the process last ended by a kill between two dumps

confVars == <<test_mode, has_stats_file, sub_conf>>
clockVars == <<now, ticks>>
mainVars == <<mainpc, nput, inHandler>>
statsVars == <<statsSet, model_stats, heap>>
workerVars == <<started, pc, wmodel, wstats, wts, wi, attempt, result, calls, slept, sink>>
histVars == <<notified, fires, firstFires>>
dumpVars == <<file, dumped, hasDump, chunks, instants>>

vars == <<confVars, clockVars, proc, run, cleanKill, events, mainVars, queue, statsVars,
          notifications, workerVars, histVars, dumpVars>>

Workers == DOMAIN models

\* Monitor.subscribers
subscribers == CreateSubs(sub_conf)

\* ModelMonitor.subscribers of worker w
wsubs(w) == MonitorSubscribers(subscribers, wmodel[w])

\* the subscriber worker w is at
wsub(w) == wsubs(w)[wi[w]]

\* the statistics as values: model name -> sequence of timestamps
Snapshot == [n \in DOMAIN model_stats |-> heap[model_stats[n]]]

(***************************************************************************)
(* The inputs.                                                             *)
(***************************************************************************)
\* the steps of the clock: a second, and a day
TickSteps == {1, DaySeconds}

\* what requests.get gives: it raises, or a response of some status, text
\* ("We are out of inventory" in it or not) and size
ProbeResponse(status, out, size) ==
    [raises |-> FALSE, status |-> status, out |-> out, size |-> size]

ProbeResults ==
    { [raises |-> TRUE, status |-> 0, out |-> FALSE, size |-> 0],
      ProbeResponse(503, FALSE, MinResponseSize),
      ProbeResponse(200, TRUE, MinResponseSize),
      ProbeResponse(200, FALSE, MinResponseSize - 1),
      ProbeResponse(200, FALSE, MinResponseSize) }

\* the entries of subscribers.yaml
Entry(email, color, size, interval) ==
    [email |-> email, color |-> color, size |-> size, interval |-> interval]

\* the in-memory state of a process that starts
MemInit ==
    /\ proc = "running" /\ mainpc = "load" /\ nput = 0 /\ inHandler = FALSE
    /\ queue = <<>>
    /\ statsSet = FALSE /\ model_stats = <<>> /\ heap = <<>>
    /\ notifications = NewNotifications(subscribers)
    /\ started = 0
    /\ pc = [w \in Workers |-> "none"]
    /\ wmodel = [w \in Workers |-> ""]
    /\ wstats = [w \in Workers |-> 0]
    /\ wts = [w \in Workers |-> <<0, 0>>]
    /\ wi = [w \in Workers |-> 0]
    /\ attempt = [w \in Workers |-> 0]
    /\ result = [w \in Workers |-> ""]
    /\ calls = [w \in Workers |-> 0]
    /\ slept = [w \in Workers |-> <<>>]
    /\ sink = [w \in Workers |-> 0]
    /\ notified = [n \in ModelNames |-> 0]
    /\ fires = [k \in DOMAIN subscribers |-> [m \in subscribers[k].models |-> 0]]
    /\ firstFires = [k \in DOMAIN subscribers |-> [m \in subscribers[k].models |-> 0]]
    /\ chunks = <<>> /\ instants = {}

\* a start of the program with one of the configurations and either no
\* statistics file or the file an earlier dump of one of oldStats wrote
InitWith(testModes, statsFiles, subConfs, oldStats) ==
    /\ test_mode \in testModes
    /\ has_stats_file \in statsFiles
    /\ sub_conf \in subConfs
    /\ \/ /\ file = [exists |-> FALSE, text |-> <<>>]
          /\ dumped = <<>> /\ hasDump = FALSE
       \/ \E old \in oldStats :
            /\ has_stats_file
            /\ file = [exists |-> TRUE, text |-> JsonDumps(old)]
            /\ dumped = old /\ hasDump = TRUE
    /\ now = 0 /\ ticks = 0
    /\ run = 0 /\ cleanKill = FALSE /\ events = 0
    /\ MemInit

(***************************************************************************)
(* The main thread.                                                        *)
(***************************************************************************)
Running == proc = "running"

\* a _load_stats that does not read the file
LoadStatsFresh(configured, f) ==
    [raised |-> FALSE, set |-> configured,
     stats |-> [n \in ModelNames |-> 1], heap |-> << <<>> >>]

\* Monitor._load_stats: what model_stats becomes.  A file that exists gives
\* what json.loads reads from it (each key with a list of its own) or
\* raises; no file gives dict.fromkeys(names, []), every name with the one
\* same list; without 'stats_file' in CONF model_stats is not set.
LoadStats(configured, f) ==
    IF ~configured
    THEN [raised |-> FALSE, set |-> FALSE, stats |-> <<>>, heap |-> <<>>]
    ELSE IF f.exists
    THEN LET r == JsonLoads(f.text)
             keys == KeysOf(r.val)
         IN  IF r.ok
             THEN [raised |-> FALSE, set |-> TRUE,
                   stats |-> [n \in DOMAIN r.val |->
                                 CHOOSE k \in DOMAIN keys : keys[k] = n],
                   heap |-> [k \in DOMAIN keys |-> r.val[keys[k]]]]
             ELSE [raised |-> TRUE, set |-> FALSE, stats |-> <<>>, heap |-> <<>>]
    ELSE [raised |-> FALSE, set |-> TRUE,
          stats |-> [n \in ModelNames |-> 1], heap |-> << <<>> >>]

\* Monitor.__init__ up to the start of the threads in _monitor: _load_stats,
\* the queue, one daemon thread per model (each blocks in queue.get())
Startup ==
    /\ Running /\ mainpc = "load"
    /\ LET r == LoadStats(has_stats_file, file)
       IN  IF r.raised
           THEN /\ proc' = "failed" /\ cleanKill' = FALSE
                /\ UNCHANGED <<mainpc, statsVars, pc>>
           ELSE /\ statsSet' = r.set /\ model_stats' = r.stats /\ heap' = r.heap
                /\ mainpc' = "put"
                /\ pc' = [w \in Workers |-> "get"]
                /\ UNCHANGED <<proc, cleanKill>>
    /\ UNCHANGED <<confVars, clockVars, run, events, nput, inHandler, queue,
                   notifications, started, wmodel, wstats, wts, wi, attempt, result,
                   calls, slept, sink, histVars, dumpVars>>

\* Monitor._monitor, lines 226-227: queue.put(model), one model a step
MainPut ==
    /\ Running /\ mainpc = "put"
    /\ queue' = Append(queue, models[nput + 1].name)
    /\ nput' = nput + 1
    /\ mainpc' = IF nput + 1 = Len(models) THEN "loop" ELSE "put"
    /\ UNCHANGED <<confVars, clockVars, proc, run, cleanKill, events, inHandler, statsVars,
                   notifications, workerVars, histVars, dumpVars>>

\* Monitor._monitor, lines 231-235: the turns of the loop (i += 1, sleep a
\* second) up to the one with i % 5 == 0, which dumps
MonitorLoop ==
    /\ Running /\ mainpc = "loop"
    /\ mainpc' = "dump"
    /\ UNCHANGED <<confVars, clockVars, proc, run, cleanKill, events, nput, inHandler, queue,
                   statsVars, notifications, workerVars, histVars, dumpVars>>

\* _dump_stats returned: to the loop, or (called by the except clause, line
\* 237) on to the raise of line 238, which ends the main thread and with it
\* the process, the workers being daemon threads
DumpReturned ==
    IF inHandler
    THEN proc' = "crashed" /\ cleanKill' = FALSE /\ UNCHANGED <<mainpc, inHandler>>
    ELSE mainpc' = "loop" /\ UNCHANGED <<proc, cleanKill, inHandler>>

\* _dump_stats raised: into the except clause of line 236, which calls
\* _dump_stats again; raised by that call, the exception ends the main thread
DumpRaised ==
    IF inHandler
    THEN proc' = "crashed" /\ cleanKill' = FALSE /\ UNCHANGED <<mainpc, inHandler>>
    ELSE inHandler' = TRUE /\ mainpc' = "dump" /\ UNCHANGED <<proc, cleanKill>>

\* Monitor._dump_stats, lines 198-199: open(CONF['stats_file'], 'w') truncates
\* the file, or raises; opened, json.dumps(self.model_stats) begins
DumpOpen(opened) ==
    /\ Running /\ mainpc = "dump"
    /\ IF ~has_stats_file
       THEN DumpReturned /\ UNCHANGED <<file, hasDump, chunks, instants>>
       ELSE IF opened
       THEN /\ file' = [exists |-> TRUE, text |-> <<>>]
            /\ hasDump' = FALSE
            /\ mainpc' = IF KeysOf(Snapshot) = <<>> THEN "write" ELSE "encode"
            /\ chunks' = <<>>
            /\ instants' = {Snapshot}
            /\ UNCHANGED <<proc, cleanKill, inHandler>>
       ELSE DumpRaised /\ UNCHANGED <<file, hasDump, chunks, instants>>
    /\ UNCHANGED <<confVars, clockVars, run, events, nput, queue, statsVars,
                   notifications, workerVars, histVars, dumped>>

\* the dict done extended by the next n keys of obj, with their lists
EncodeNext(obj, done, n) ==
    LET keys == KeysOf(obj)
        k == Cardinality(DOMAIN done)
        more == {keys[i] : i \in (k + 1)..(k + n)}
    IN  [key \in DOMAIN done \cup more |-> IF key \in DOMAIN done THEN done[key] ELSE obj[key]]

\* Monitor._dump_stats, line 200: json.dumps(self.model_stats) walks the dict
\* key by key and encodes each key's list as it is when it comes to it.  No
\* lock is held and no copy is taken: whether the workers run during the
\* walk depends on the interpreter (the C encoder of CPython 2.7 keeps the
\* interpreter lock for the whole walk, the encoder written in Python does
\* not), so a step encodes any number n of the keys that are left.
DumpEncode(n) ==
    /\ Running /\ mainpc = "encode"
    /\ LET left == Len(KeysOf(Snapshot)) - Cardinality(DOMAIN chunks)
       IN  /\ n <= left
           /\ chunks' = EncodeNext(Snapshot, chunks, n)
           /\ mainpc' = IF n = left THEN "write" ELSE "encode"
    /\ UNCHANGED <<confVars, clockVars, proc, run, cleanKill, events, nput, inHandler, queue,
                   statsVars, notifications, workerVars, histVars, file, dumped, hasDump,
                   instants>>

\* json.dumps under the C encoder: the walk is one step
DumpEncodeAll == DumpEncode(Len(KeysOf(Snapshot)) - Cardinality(DOMAIN chunks))

\* Monitor._dump_stats, line 200 and the end of the with block: what
\* json.dumps encoded is written and the file closed, or the write raises and
\* the file stays truncated
DumpWrite(written) ==
    /\ Running /\ mainpc = "write"
    /\ IF written
       THEN /\ file' = [exists |-> TRUE, text |-> JsonDumps(chunks)]
            /\ dumped' = chunks
            /\ hasDump' = TRUE
            /\ DumpReturned
       ELSE /\ DumpRaised
            /\ UNCHANGED <<file, dumped, hasDump>>
    /\ chunks' = <<>> /\ instants' = {}
    /\ UNCHANGED <<confVars, clockVars, run, events, nput, queue, statsVars,
                   notifications, workerVars, histVars>>

(***************************************************************************)
(* The worker threads.                                                     *)
(***************************************************************************)
\* a get() that leaves the item in the queue
QueuePeek(q) == [item |-> Head(q), rest |-> q]

\* Queue.get(): the first item, which leaves the queue
QueueGet(q) == [item |-> Head(q), rest |-> Tail(q)]

\* Monitor._worker, lines 212-214: a model from the queue, its list in
\* model_stats, the ModelMonitor.  model_stats that is not set, or has no
\* such key, raises and ends the thread.  The threads blocked in get() are
\* alike: the one that leaves it next is numbered next.
WorkerGet(w) ==
    /\ Running /\ pc[w] = "get" /\ w = started + 1
    /\ queue # <<>>
    /\ LET got == QueueGet(queue)
       IN  /\ queue' = got.rest
           /\ wmodel' = [wmodel EXCEPT ![w] = got.item]
           /\ IF statsSet /\ got.item \in DOMAIN model_stats
              THEN /\ wstats' = [wstats EXCEPT ![w] = model_stats[got.item]]
                   /\ pc' = [pc EXCEPT ![w] = "check"]
              ELSE /\ pc' = [pc EXCEPT ![w] = "dead"]
                   /\ UNCHANGED wstats
    /\ started' = started + 1
    /\ UNCHANGED <<confVars, clockVars, proc, run, cleanKill, events, mainVars, statsVars,
                   notifications, wts, wi, attempt, result, calls, slept, sink, histVars,
                   dumpVars>>

\* ModelMonitor.check, lines 84-103: what becomes of a result of requests.get
Probe(r) ==
    IF r.raises THEN "exception"
    ELSE IF r.status # 200 THEN "invalid code"
    ELSE IF r.out THEN "out of stock"
    ELSE IF r.size < MinResponseSize THEN "small"
    ELSE "notify"

\* a check that raised while it made the request
Uncaught(outcome) ==
    IF outcome = "notify" THEN "append"
    ELSE IF outcome = "exception" THEN "dead"
    ELSE "check"

\* a check that takes a small response for the product's page
SmallIsStock(outcome) == IF outcome \in {"notify", "small"} THEN "append" ELSE "check"

\* ModelMonitor.check, lines 84-103: where the thread goes on: into notify,
\* or (the code or the size was wrong, out of stock, or the except clause
\* caught what was raised) back to _worker, its sleep and the next check
AfterProbe(outcome) == IF outcome = "notify" THEN "append" ELSE "check"

\* ModelMonitor.check on the result r of requests.get, and the first lines of
\* notify (105-110, the timestamp of datetime.now()), then the sleep of
\* _worker when notify is not called
CheckResult(w, r) ==
    /\ Running /\ pc[w] = "check"
    /\ LET outcome == IF test_mode THEN "notify" ELSE Probe(r)
       IN  /\ pc' = [pc EXCEPT ![w] = AfterProbe(outcome)]
           /\ IF outcome = "notify"
              THEN /\ events < MaxEvents
                   /\ events' = events + 1
                   /\ notified' = [notified EXCEPT ![wmodel[w]] = @ + 1]
                   /\ wts' = [wts EXCEPT ![w] = Strftime(now)]
              ELSE UNCHANGED <<events, notified, wts>>
    /\ UNCHANGED <<confVars, clockVars, proc, run, cleanKill, mainVars, queue, statsVars,
                   notifications, started, wmodel, wstats, wi, attempt, result, calls,
                   slept, sink, fires, firstFires, dumpVars>>

\* one call of check, whatever requests.get gives
Check(w) == \E r \in ProbeResults : CheckResult(w, r)

\* where the loop of notify (line 112) goes after the subscriber at position k
AfterSub(w, k) == IF k >= Len(wsubs(w)) THEN "check" ELSE "subs"

\* the position after k in that loop (none after the last)
NextSub(w, k) == IF k >= Len(wsubs(w)) THEN 0 ELSE k + 1

\* ModelMonitor.notify, line 110: self.stats.append(...)
NotifyAppend(w) ==
    /\ Running /\ pc[w] = "append"
    /\ heap' = [heap EXCEPT ![wstats[w]] = Append(@, wts[w])]
    /\ wts' = [wts EXCEPT ![w] = <<0, 0>>]
    /\ wi' = [wi EXCEPT ![w] = NextSub(w, 0)]
    /\ pc' = [pc EXCEPT ![w] = AfterSub(w, 0)]
    /\ instants' = IF mainpc = "encode"
                   THEN instants \cup {[n \in DOMAIN model_stats |-> heap'[model_stats[n]]]}
                   ELSE instants
    /\ UNCHANGED <<confVars, clockVars, proc, run, cleanKill, events, mainVars, queue, statsSet,
                   model_stats, notifications, started, wmodel, wstats, attempt,
                   result, calls, slept, sink, histVars, file, dumped, hasDump, chunks>>

\* ModelMonitor.notify, lines 113-129, for the subscriber at wi: the decision
FireCheck(w) ==
    /\ Running /\ pc[w] = "subs"
    /\ LET k == wsub(w)
           m == wmodel[w]
           last_time == notifications[k][m]
           fire == ShouldFire(last_time, now, subscribers[k].interval)
       IN  /\ IF fire
              THEN /\ fires' = [fires EXCEPT ![k][m] = @ + 1]
                   /\ firstFires' = [firstFires EXCEPT
                                        ![k][m] = IF last_time = None THEN @ + 1 ELSE @]
                   /\ pc' = [pc EXCEPT ![w] = "send"]
                   /\ UNCHANGED wi
              ELSE /\ pc' = [pc EXCEPT ![w] = AfterSub(w, wi[w])]
                   /\ wi' = [wi EXCEPT ![w] = NextSub(w, wi[w])]
                   /\ UNCHANGED <<fires, firstFires>>
    /\ UNCHANGED <<confVars, clockVars, proc, run, cleanKill, events, mainVars, queue, statsVars,
                   notifications, started, wmodel, wstats, wts, attempt, result, calls,
                   slept, sink, notified, dumpVars>>

\* a send_notification that does not reset the last notification time
SendNoStamp(w) ==
    /\ Running /\ pc[w] = "send"
    /\ attempt' = [attempt EXCEPT ![w] = 0]
    /\ calls' = [calls EXCEPT ![w] = 0]
    /\ slept' = [slept EXCEPT ![w] = <<>>]
    /\ pc' = [pc EXCEPT ![w] = "smtp"]
    /\ UNCHANGED <<confVars, clockVars, proc, run, cleanKill, events, mainVars, queue,
                   statsVars, notifications, started, wmodel, wstats, wts, wi, result, sink,
                   histVars, dumpVars>>

\* ModelMonitor.send_notification, lines 132-144: the subscriber's last
\* notification time is reset, the message made
SendStamp(w) ==
    /\ Running /\ pc[w] = "send"
    /\ notifications' = [notifications EXCEPT ![wsub(w)][wmodel[w]] = now]
    /\ attempt' = [attempt EXCEPT ![w] = 0]
    /\ calls' = [calls EXCEPT ![w] = 0]
    /\ slept' = [slept EXCEPT ![w] = <<>>]
    /\ pc' = [pc EXCEPT ![w] = "smtp"]
    /\ UNCHANGED <<confVars, clockVars, proc, run, cleanKill, events, mainVars, queue,
                   statsVars, started, wmodel, wstats, wts, wi, result, sink, histVars,
                   dumpVars>>

\* a loop of one attempt more
OneMoreAttempt(a) == a <= max_attempts

\* a loop over an empty range
NoAttempts(a) == a < 0

\* send_notification, line 145: for attempt in range(max_attempts) goes on
MoreAttempts(a) == a < max_attempts

\* send_notification, lines 145-156, from attempt a on, the mail server
\* answering the calls as outcomes says (TRUE: sent): a mail that is sent
\* returns; an exception is logged, sleeps 5 * attempt and goes to the next
\* attempt, or out of the loop after the last.  (finally adds 1 to attempt
\* on both ways.)  Gives the attempt, the calls made, the sleeps and the end.
RECURSIVE SendLoop(_, _, _, _)
SendLoop(a, outcomes, made, sleeps) ==
    IF ~MoreAttempts(a)
    THEN [attempt |-> a, calls |-> made, slept |-> sleeps, result |-> "exhausted"]
    ELSE IF outcomes[made + 1]
    THEN [attempt |-> a + 1, calls |-> made + 1, slept |-> sleeps, result |-> "success"]
    ELSE SendLoop(a + 1, outcomes, made + 1, Append(sleeps, BackoffFactor * a))

\* the answers of the mail server to the calls of one send_notification:
\* it accepts the call numbered first and none before it, or (first = 0) none
SinkAnswers(first) == [k \in 1..(max_attempts + 2) |-> k = first]

\* ModelMonitor.send_notification, lines 145-156: the attempts.  The thread
\* is here while it calls the mail server and while it sleeps between the
\* attempts.
Deliver(w, first) ==
    /\ Running /\ pc[w] = "smtp"
    /\ LET r == SendLoop(0, SinkAnswers(first), 0, <<>>)
       IN  /\ attempt' = [attempt EXCEPT ![w] = r.attempt]
           /\ calls' = [calls EXCEPT ![w] = r.calls]
           /\ slept' = [slept EXCEPT ![w] = r.slept]
           /\ result' = [result EXCEPT ![w] = r.result]
    /\ sink' = [sink EXCEPT ![w] = first]
    /\ pc' = [pc EXCEPT ![w] = "sent"]
    /\ UNCHANGED <<confVars, clockVars, proc, run, cleanKill, events, mainVars, queue, statsVars,
                   notifications, started, wmodel, wstats, wts, wi, histVars, dumpVars>>

\* a notify that sends again what was not sent
SentRetries(w) ==
    /\ Running /\ pc[w] = "sent"
    /\ IF result[w] = "exhausted"
       THEN pc' = [pc EXCEPT ![w] = "send"] /\ UNCHANGED wi
       ELSE /\ pc' = [pc EXCEPT ![w] = AfterSub(w, wi[w])]
            /\ wi' = [wi EXCEPT ![w] = NextSub(w, wi[w])]
    /\ attempt' = [attempt EXCEPT ![w] = 0]
    /\ result' = [result EXCEPT ![w] = ""]
    /\ calls' = [calls EXCEPT ![w] = 0]
    /\ slept' = [slept EXCEPT ![w] = <<>>]
    /\ sink' = [sink EXCEPT ![w] = 0]
    /\ UNCHANGED <<confVars, clockVars, proc, run, cleanKill, events, mainVars, queue, statsVars,
                   notifications, started, wmodel, wstats, wts, histVars, dumpVars>>

\* send_notification returned to notify: on to the next subscriber, or back
\* to _worker's sleep and the next check
Sent(w) ==
    /\ Running /\ pc[w] = "sent"
    /\ pc' = [pc EXCEPT ![w] = AfterSub(w, wi[w])]
    /\ wi' = [wi EXCEPT ![w] = NextSub(w, wi[w])]
    /\ attempt' = [attempt EXCEPT ![w] = 0]
    /\ result' = [result EXCEPT ![w] = ""]
    /\ calls' = [calls EXCEPT ![w] = 0]
    /\ slept' = [slept EXCEPT ![w] = <<>>]
    /\ sink' = [sink EXCEPT ![w] = 0]
    /\ UNCHANGED <<confVars, clockVars, proc, run, cleanKill, events, mainVars, queue, statsVars,
                   notifications, started, wmodel, wstats, wts, histVars, dumpVars>>

(***************************************************************************)
(* The environment: the clock, a kill of the process, a new start.         *)
(***************************************************************************)
Tick(d) ==
    /\ ticks < MaxTicks
    /\ now' = now + d
    /\ ticks' = ticks + 1
    /\ UNCHANGED <<confVars, proc, run, cleanKill, events, mainVars, queue, statsVars,
                   notifications, workerVars, histVars, dumpVars>>

\* the memory of a process that is p: started, or gone
MemReset(p) ==
    /\ proc' = p /\ mainpc' = "load" /\ nput' = 0 /\ inHandler' = FALSE
    /\ queue' = <<>>
    /\ statsSet' = FALSE /\ model_stats' = <<>> /\ heap' = <<>>
    /\ notifications' = NewNotifications(subscribers)
    /\ started' = 0
    /\ notified' = [n \in ModelNames |-> 0]
    /\ pc' = [w \in Workers |-> "none"]
    /\ wmodel' = [w \in Workers |-> ""]
    /\ wstats' = [w \in Workers |-> 0]
    /\ wts' = [w \in Workers |-> <<0, 0>>]
    /\ wi' = [w \in Workers |-> 0]
    /\ attempt' = [w \in Workers |-> 0]
    /\ result' = [w \in Workers |-> ""]
    /\ calls' = [w \in Workers |-> 0]
    /\ slept' = [w \in Workers |-> <<>>]
    /\ sink' = [w \in Workers |-> 0]
    /\ fires' = [k \in DOMAIN subscribers |-> [m \in subscribers[k].models |-> 0]]
    /\ firstFires' = [k \in DOMAIN subscribers |-> [m \in subscribers[k].models |-> 0]]
    /\ chunks' = <<>> /\ instants' = {}

\* the process is killed (a signal): every thread ends where it is and the
\* memory is gone; the disk stays as it is
Kill ==
    /\ Running
    /\ cleanKill' = (~inHandler /\ mainpc \notin {"encode", "write"})
    /\ MemReset("killed")
    /\ UNCHANGED <<confVars, clockVars, run, file, dumped, hasDump, events>>

\* Ctrl-C: KeyboardInterrupt is raised in the main thread.  It is no
\* Exception, so the except clause of line 236 does not catch it: the main
\* thread ends where it is, and with it the process and its daemon threads.
\* The memory is left as it was at the exit.
Interrupt ==
    /\ Running
    /\ proc' = "interrupted"
    /\ cleanKill' = (~inHandler /\ mainpc \notin {"encode", "write"})
    /\ UNCHANGED <<confVars, clockVars, run, events, mainVars, queue, statsVars,
                   notifications, workerVars, histVars, dumpVars>>

\* the program is started again: the disk and the configuration are what
\* they were, the memory is new
Restart ==
    /\ ~Running /\ run < MaxRestarts
    /\ run' = run + 1
    /\ MemReset("running")
    /\ UNCHANGED <<confVars, clockVars, cleanKill, file, dumped, hasDump, events>>

(***************************************************************************)
(* The specifications.                                                     *)
(***************************************************************************)
MainStep ==
    \/ Startup
    \/ MainPut
    \/ MonitorLoop
    \/ \E opened \in BOOLEAN : DumpOpen(opened)
    \/ \E n \in 1..Len(models) : DumpEncode(n)
    \/ \E written \in BOOLEAN : DumpWrite(written)

\* the main thread of an interpreter with the C encoder
MainStepC ==
    \/ Startup
    \/ MainPut
    \/ MonitorLoop
    \/ \E opened \in BOOLEAN : DumpOpen(opened)
    \/ DumpEncodeAll
    \/ \E written \in BOOLEAN : DumpWrite(written)

PollStep(w) ==
    \/ WorkerGet(w)
    \/ Check(w)
    \/ NotifyAppend(w)

NotifyStep(w) ==
    \/ FireCheck(w)
    \/ SendStamp(w)
    \/ \E first \in 0..max_attempts : Deliver(w, first)
    \/ Sent(w)

WorkerStep(w) == PollStep(w) \/ NotifyStep(w)

\* subscribers.yaml: nobody; one subscriber of everything, with no interval;
\* two subscribers of one model, with an interval of 2 s and with none; two
\* subscribers of a model each, with intervals of a day and of 2 s
NoSubscribers == <<>>

Everything == <<Entry("a@x.com", NoKey, NoKey, None)>>

SameModel == <<Entry("a@x.com", "white", "32", 2), Entry("b@x.com", "white", "32", None)>>

OtherModels ==
    <<Entry("a@x.com", "white", "32", DaySeconds), Entry("b@x.com", "blue", "64", 2)>>

SubConfs == {NoSubscribers, Everything, SameModel, OtherModels}

\* the statistics an earlier dump may have written: of a run without events,
\* and of a run of a program that did not have the last model yet
OldStats ==
    { [n \in ModelNames |-> <<>>],
      [n \in ModelNames \ {models[Len(models)].name} |-> <<>>] }

\* The program: every configuration, every thread, kills and new starts.
Init == InitWith(BOOLEAN, BOOLEAN, SubConfs, OldStats)

Next ==
    \/ MainStep
    \/ \E w \in Workers : WorkerStep(w)
    \/ \E d \in TickSteps : Tick(d)
    \/ Kill
    \/ Restart

Spec == Init /\ [][Next]_vars

\* The pollers and the notifications: the process runs with subscribers, in
\* test mode or not, from its start to the workers' polling, until it is
\* killed; the main thread is not followed into its loop of dumps.
InitNotify == InitWith(BOOLEAN, {TRUE}, {SameModel, OtherModels}, {})

NextNotify ==
    \/ Startup
    \/ MainPut
    \/ \E w \in Workers : WorkerStep(w)
    \/ \E d \in TickSteps : Tick(d)
    \/ Kill

SpecNotify == InitNotify /\ [][NextNotify]_vars

\* The pollers under the scheduler: two subscribers of one model, the clock
\* advancing by seconds, and every thread that can take a step being
\* scheduled in the end (the threads are daemon threads of one interpreter,
\* each blocked only in calls that return: get, sleep, the request and the
\* mail server's calls with their timeouts).
InitPoll == InitWith(BOOLEAN, {TRUE}, {SameModel}, {})

NextPoll ==
    \/ Startup
    \/ MainPut
    \/ \E w \in Workers : WorkerStep(w)
    \/ Tick(1)
    \/ Kill

SpecPoll == InitPoll /\ [][NextPoll]_vars

FairPoll == SpecPoll /\ WF_vars(MainPut) /\ \A w \in Workers : WF_vars(WorkerStep(w))

\* The statistics: the process runs without subscribers, with or without a
\* statistics file configured and present, dumps (json.dumps being one step,
\* as under CPython 2.7), is killed and started again; the clock advances by
\* days.
InitStore == InitWith({FALSE}, BOOLEAN, {NoSubscribers}, OldStats)

NextStore ==
    \/ MainStepC
    \/ \E w \in Workers : PollStep(w)
    \/ Tick(DaySeconds)
    \/ Kill
    \/ Restart

SpecStore == InitStore /\ [][NextStore]_vars

\* The dump beside the workers: json.dumps walks the dict in one step or in
\* several, the workers appending between them; with a statistics file of
\* every model (a list for each) or with none (one list for all).
InitDump == InitWith({FALSE}, {TRUE}, {NoSubscribers}, {[n \in ModelNames |-> <<>>]})

NextDump ==
    \/ MainStep
    \/ \E w \in Workers : PollStep(w)
    \/ Kill

SpecDump == InitDump /\ [][NextDump]_vars

\* The same, and the process may be interrupted.
NextShutdown ==
    \/ NextStore
    \/ Interrupt

SpecShutdown == InitStore /\ [][NextShutdown]_vars

(***************************************************************************)
(* The claims.                                                             *)
(***************************************************************************)
\* the pairs (subscriber, model) that have a last notification time
Pairs == {<<k, m>> \in (DOMAIN subscribers) \X ModelNames : m \in subscribers[k].models}

\* the workers that poll model m
PollersOf(m) == {w \in Workers : wmodel[w] = m /\ pc[w] \notin {"none", "get", "dead"}}

\* worker w takes the decision for its subscriber in this step: to notify,
\* or not to
Fires(w) == pc[w] = "subs" /\ pc'[w] = "send"
Suppresses(w) == pc[w] = "subs" /\ pc'[w] \in {"subs", "check"} /\ wi'[w] # wi[w]
Decides(w) == Fires(w) \/ Suppresses(w)

\* C1. First fire: a pair that was never notified gets exactly one decision
\* to notify from the first "in stock" result of its model, whatever the
\* subscriber's interval, and no two decisions are ever taken for a pair on
\* "never notified", however the workers interleave.
FirstFire ==
    \A p \in Pairs :
        LET k == p[1]
            m == p[2]
        IN  /\ firstFires[k][m] <= 1
            /\ notified[m] = 1 => fires[k][m] <= 1
            /\ (notified[m] >= 1 /\ \E w \in PollersOf(m) : pc[w] = "check")
                  => /\ firstFires[k][m] = 1
                     /\ notifications[k][m] # None
                     /\ (notified[m] = 1 => fires[k][m] = 1)

\* C1 happens: the first "in stock" result of a model is dealt with, for
\* subscribers with an interval, with none and with one of a day
FirstFireWitness ==
    /\ \E p \in Pairs : /\ subscribers[p[1]].interval = 0
                        /\ notified[p[2]] = 1 /\ fires[p[1]][p[2]] = 1
                        /\ \E w \in PollersOf(p[2]) : pc[w] = "check"
    /\ Cardinality(Pairs) > 1

\* C2. Interval suppression: with an interval I > 0 and a last notification
\* at t0, the decision at now is not to notify when now - t0 < I and to
\* notify when now - t0 >= I, however long ago t0 is.
IntervalSuppression ==
    [][\A w \in Workers :
          Decides(w) =>
              LET k == wsub(w)
                  t0 == notifications[k][wmodel[w]]
                  I == subscribers[k].interval
              IN  (I > 0 /\ t0 # None) =>
                      /\ now - t0 < I => Suppresses(w)
                      /\ now - t0 >= I => Fires(w)]_vars

\* C3. Zero interval: a pair whose subscriber has interval 0 is notified at
\* most once in a run: every decision after the first is not to notify.
ZeroIntervalOnce ==
    \A p \in Pairs : subscribers[p[1]].interval = 0 => fires[p[1]][p[2]] <= 1

\* C3 happens: a second "in stock" result, a day after the notification, is
\* dealt with and the pair of interval 0 was notified once
ZeroIntervalWitness ==
    \E p \in Pairs :
        /\ subscribers[p[1]].interval = 0
        /\ notified[p[2]] = 2 /\ fires[p[1]][p[2]] = 1
        /\ \E w \in PollersOf(p[2]) : pc[w] = "check"
        /\ notifications[p[1]][p[2]] # None
        /\ now - notifications[p[1]][p[2]] >= DaySeconds

\* C4. The last notification time of a pair is set, to the current time, by
\* the decision to notify it and by nothing else: it is set before the first
\* attempt to deliver, a decision not to notify leaves it and so does the
\* delivery, sent or exhausted.
StampIffFire ==
    [][proc' = "running" =>
       /\ \A p \in Pairs :
            notifications'[p[1]][p[2]] # notifications[p[1]][p[2]] =>
                \E w \in Workers : /\ pc[w] = "send" /\ pc'[w] = "smtp"
                                   /\ wsub(w) = p[1] /\ wmodel[w] = p[2]
                                   /\ notifications'[p[1]][p[2]] = now
       /\ \A w \in Workers :
            (pc[w] = "send" /\ pc'[w] # "send") =>
                /\ notifications'[wsub(w)][wmodel[w]] = now
                /\ pc'[w] = "smtp" /\ calls'[w] = 0]_vars

\* C4 happens: a delivery is exhausted and the time of its decision stays
StampWitness ==
    \E w \in Workers : /\ pc[w] = "sent" /\ result[w] = "exhausted"
                       /\ notifications[wsub(w)][wmodel[w]] = now
                       /\ now > 0

\* C5. Retry bound: a delivery calls the mail server at most max_attempts
\* times: exactly max_attempts times and ends exhausted when every call
\* fails, exactly k times and ends sent when the k-th call is the first that
\* succeeds.
RetryBound ==
    \A w \in Workers :
        /\ calls[w] <= max_attempts
        /\ pc[w] = "sent" =>
              IF sink[w] = 0
              THEN calls[w] = max_attempts /\ result[w] = "exhausted"
              ELSE calls[w] = sink[w] /\ result[w] = "success"

\* C5 happens: deliveries under a mail server that fails every call, and
\* under one that accepts the last
RetryWitness ==
    /\ \E w \in Workers : pc[w] = "sent" /\ sink[w] = 0 /\ calls[w] = max_attempts
    /\ \E w \in Workers : pc[w] = "sent" /\ sink[w] = max_attempts

\* what _load_stats reads from the file (as values), or that it raised
Loaded ==
    LET r == LoadStats(TRUE, file)
    IN  [raised |-> r.raised,
         stats |-> [n \in DOMAIN r.stats |-> r.heap[r.stats[n]]]]

\* the process has loaded the statistics and no worker has a model yet
JustLoaded == Running /\ mainpc = "put" /\ nput = 0

\* the workers are in their loop
InLoop(w) == pc[w] \in {"check", "append", "subs", "send", "smtp", "sent"}

\* C6. Round trip: the file a completed dump of the statistics S wrote is
\* read by _load_stats as S: the same model names, each with the same
\* sequence of timestamps.
RoundTrip ==
    hasDump => Loaded = [raised |-> FALSE, stats |-> dumped]

\* C6 happens: a dump of statistics whose lists differ, with a timestamp of
\* a later day, was written
RoundTripWitness ==
    /\ hasDump
    /\ \E n1, n2 \in DOMAIN dumped : dumped[n1] # dumped[n2]
    /\ \E n \in DOMAIN dumped : \E k \in DOMAIN dumped[n] : dumped[n][k][1] > 0

\* C7. Crash-bounded loss: a process killed between two dumps loses only
\* what was recorded after the last completed dump: started again, it has
\* every timestamp that dump wrote, for every model, from _load_stats on.
CrashBoundedLoss ==
    (Running /\ run >= 1 /\ cleanKill /\ mainpc # "load" /\ dumped # <<>>) =>
        /\ statsSet
        /\ \A n \in DOMAIN dumped :
              n \in DOMAIN model_stats /\ IsPrefix(dumped[n], Snapshot[n])

\* C7 happens: a process killed after a dump with events, and after an
\* event the dump did not have, has just loaded the statistics
CrashWitness ==
    /\ JustLoaded /\ run >= 1 /\ cleanKill
    /\ \E n \in DOMAIN dumped : dumped[n] # <<>>
    /\ events > Len(dumped[models[1].name])

\* C8. A poller never exits but with the process: whatever the results of
\* its checks (in stock or not, a wrong code, a small response, an
\* exception), in test mode or not, and however its deliveries end, a worker
\* in its loop stays in it, and comes to its next check.
PollerNeverExits ==
    /\ [][\A w \in Workers : (InLoop(w) /\ proc' = "running") => InLoop(w)']_vars
    /\ \A w \in Workers : [](InLoop(w) => <>(pc[w] = "check" \/ ~Running))

\* C8 happens: a worker is back at its check after a delivery that was
\* exhausted (the last subscriber's), after two "in stock" results
PollerWitness ==
    \E w \in Workers :
        /\ pc[w] = "check" /\ notified[wmodel[w]] = 2
        /\ \E k \in DOMAIN subscribers :
              /\ wmodel[w] \in subscribers[k].models
              /\ fires[k][wmodel[w]] = 2

\* C9. _load_stats gives every model a sequence: the one of the last dump,
\* or an empty one when there is no file or the dump does not have the
\* model; and every model's worker starts and polls.
LoadGivesEveryModel ==
    (Running /\ has_stats_file /\ mainpc # "load") =>
        /\ statsSet
        /\ \A n \in ModelNames : n \in DOMAIN model_stats
        /\ \A w \in Workers : pc[w] # "dead"

\* C10. A failed dump is not fatal: the process goes on (and dumps again
\* after the next five seconds).
FailedDumpNotFatal == proc # "crashed"

\* C11. A final dump on shutdown: a process that ended on an interrupt has
\* written the statistics it had: every model's timestamps are in the file.
FinalCheckpoint ==
    (proc = "interrupted" /\ has_stats_file /\ statsSet) =>
        \A n \in DOMAIN Snapshot :
            Snapshot[n] # <<>> => (hasDump /\ n \in DOMAIN dumped /\ dumped[n] = Snapshot[n])

\* C12. At least one attempt for a decision to notify: a worker that decided
\* to notify a subscriber goes into send_notification and leaves it only
\* after a call of the mail server, and it comes to its next check of the
\* model only from notify's loop, after that; scheduled, it gets there.
AtLeastOneAttempt ==
    /\ [][\A w \in Workers :
            proc' = "running" =>
                /\ Fires(w) => pc'[w] = "send"
                /\ (pc[w] = "send" /\ pc'[w] # "send") => pc'[w] = "smtp"
                /\ (pc[w] = "smtp" /\ pc'[w] # "smtp") =>
                       (pc'[w] = "sent" /\ calls'[w] >= 1)
                /\ (pc'[w] = "check" /\ pc[w] # "check") =>
                       pc[w] \in {"get", "append", "subs", "sent"}]_vars
    /\ \A w \in Workers : (pc[w] = "send") ~> (pc[w] = "sent" \/ ~Running)

\* C12 happens: a delivery whose first call of the mail server was accepted,
\* for the second decision to notify the pair
AttemptWitness ==
    \E w \in Workers :
        /\ pc[w] = "sent" /\ calls[w] = 1 /\ result[w] = "success"
        /\ fires[wsub(w)][wmodel[w]] = 2

\* C13. A check that does not find the model in stock (a wrong code, out of
\* stock, a small response, an exception) changes nothing: no statistics, no
\* last notification time, no call of the mail server, and the worker is
\* back in its loop.  A check that finds it goes into notify, which appends
\* one timestamp to the model's statistics before the first decision; the
\* statistics change in no other step.
NoEffectUnlessInStock ==
    [][\A w \in Workers :
          /\ \A r \in ProbeResults :
                (~test_mode /\ Probe(r) # "notify" /\ CheckResult(w, r)) =>
                    /\ pc' = pc /\ calls' = calls
                    /\ heap' = heap /\ model_stats' = model_stats
                    /\ notifications' = notifications
          /\ proc' = "running" =>
                /\ (pc[w] = "check" /\ pc'[w] # "check") =>
                       /\ pc'[w] = "append"
                       /\ heap' = heap /\ notifications' = notifications
                /\ (pc[w] = "append" /\ pc'[w] # "append") =>
                       /\ pc'[w] \in {"subs", "check"}
                       /\ Snapshot'[wmodel[w]] = Append(Snapshot[wmodel[w]], wts[w])
                       /\ notifications' = notifications
                /\ (pc'[w] = "subs" /\ pc[w] \notin {"subs", "sent"}) => pc[w] = "append"
                /\ (heap' # heap /\ mainpc # "load") =>
                       \E v \in Workers : pc[v] = "append" /\ pc'[v] # "append"]_vars

\* C13 happens: not in test mode, a worker found its model in stock a day
\* after the start, appended the timestamp and is at the first decision
InStockWitness ==
    /\ ~test_mode
    /\ \E w \in Workers :
          /\ pc[w] = "subs" /\ wi[w] = 1
          /\ notified[wmodel[w]] = 1
          /\ Snapshot[wmodel[w]] = <<Strftime(DaySeconds)>>
          /\ fires[wsub(w)][wmodel[w]] = 0

\* C14. The statistics of every model are in the order of time: no
\* timestamp of a list is earlier than one before it, however the workers
\* interleave.
MonotoneLog ==
    \A n \in DOMAIN Snapshot :
        \A i, j \in DOMAIN Snapshot[n] :
            i < j => StampLeq(Snapshot[n][i], Snapshot[n][j])

\* C15. The statistics of a model hold its own events and no other's: in a
\* process that started without a statistics file, the length of a model's
\* list is the number of times the model was found in stock (one of them
\* may be about to be appended).
ItemIsolation ==
    (Running /\ statsSet /\ ~file.exists) =>
        \A n \in DOMAIN model_stats :
            Len(Snapshot[n]) + Cardinality({w \in Workers : wmodel[w] = n /\ pc[w] = "append"})
                = notified[n]

\* every model has a list of its own (the statistics were read from a file)
OwnLists == \A n1, n2 \in DOMAIN model_stats : n1 # n2 => model_stats[n1] # model_stats[n2]

\* C16. A dump is the statistics of one instant: what json.dumps has encoded
\* when it is done is the statistics as they were, for every model, at one
\* instant since it began (every model having a list of its own).
DumpOfOneInstant ==
    (Running /\ mainpc = "write" /\ OwnLists) => chunks \in instants

\* C17. One worker for a model: when every worker has taken its model from
\* the queue, every model is polled by one worker, in its loop.
OneWorkerPerModel ==
    (Running /\ started = Len(models)) =>
        \A m \in ModelNames : Cardinality({w \in Workers : wmodel[w] = m /\ InLoop(w)}) = 1

\* C18. A delivery that is exhausted ends there: the worker goes on to the
\* next subscriber of the model, or after the last to its next check, and
\* sends again only on a decision to notify.  While a worker is in
\* send_notification (its calls and its sleeps), the other workers and the
\* main thread can take their steps.
ExhaustedNotBlocking ==
    [][\A w \in Workers :
          proc' = "running" =>
              /\ (pc[w] = "sent" /\ pc'[w] # "sent") =>
                     /\ IF wi[w] < Len(wsubs(w))
                        THEN pc'[w] = "subs" /\ wi'[w] = wi[w] + 1
                        ELSE pc'[w] = "check"
                     /\ notifications' = notifications
              /\ (pc'[w] = "smtp" /\ pc[w] # "smtp") => pc[w] = "send"
              /\ (pc'[w] = "send" /\ pc[w] # "send") => pc[w] = "subs"
              /\ pc[w] = "smtp" =>
                     /\ \A v \in Workers \ {w} :
                            /\ pc[v] \in {"append", "subs", "send", "smtp", "sent"}
                                   => ENABLED WorkerStep(v)
                            /\ (pc[v] = "check" /\ ~test_mode) => ENABLED Check(v)
                            /\ (pc[v] = "get" /\ v = started + 1 /\ queue # <<>>)
                                   => ENABLED WorkerGet(v)
                     /\ mainpc = "put" => ENABLED MainPut
                     /\ mainpc = "loop" => ENABLED MonitorLoop]_vars

\* C18 happens: the delivery to the first of two subscribers is exhausted,
\* while another worker is about to append to its statistics
ExhaustedWitness ==
    \E w, v \in Workers :
        /\ pc[w] = "sent" /\ result[w] = "exhausted"
        /\ wi[w] = 1 /\ Len(wsubs(w)) = 2
        /\ pc[v] = "append"

\* C19. The backoff: a delivery sleeps between two calls of the mail server
\* and nowhere else (not after the call that was accepted, not after the
\* last call), for 5 * attempt seconds before the next call, each sleep
\* longer than the one before.
BackoffSchedule ==
    \A w \in Workers :
        pc[w] = "sent" =>
            /\ Len(slept[w]) = calls[w] - 1
            /\ \A k \in DOMAIN slept[w] : slept[w][k] = BackoffFactor * (k - 1)
            /\ \A j, k \in DOMAIN slept[w] : j < k => slept[w][j] < slept[w][k]

\* C20. The statistics file is safe at every instant: when it exists,
\* _load_stats reads it without an error and gets at least every timestamp
\* of the last completed dump, also while a dump is being written.
CrashSafeFile ==
    file.exists =>
        /\ ~Loaded.raised
        /\ \A n \in DOMAIN dumped :
              n \in DOMAIN Loaded.stats /\ IsPrefix(dumped[n], Loaded.stats[n])

====
